---- MODULE Spec2Model ----
(***************************************************************************)
(* A model of src/main.py: class IPSRecording.                             *)
(*                                                                         *)
(* One IPSRecording instance is modelled.  Its state is the instance's     *)
(* attributes (pb_file, positions, magnetics, rect_grid, cell_size); the   *)
(* operations are __init__, read_recording, magnetics_pos_calc and         *)
(* set_rect_grid.  Each action is one whole call of the method.            *)
(*                                                                         *)
(* Numbers.  Timestamps are integers.  Coordinates, speeds, magnitudes and *)
(* averages are exact rationals [n, d] in lowest terms with d > 0, so that *)
(* floor, ceil, // and the interpolation formula are computed and not      *)
(* assumed.  The record with d = 0 stands for a non-finite float (inf or   *)
(* nan).  Rounding error of IEEE doubles is not modelled.                  *)
(*                                                                         *)
(* Columns floor, type and accuracy are copied by read_recording and read  *)
(* by nothing; they are left out.  Plotting (lines 243-249) draws a figure *)
(* and touches no attribute of the instance; it is left out.               *)
(***************************************************************************)
EXTENDS Integers, Sequences, FiniteSets, TLC

(***************************************************************************)
(* Bounds of the model.                                                    *)
(***************************************************************************)
\* most ground-truth records in the file
MaxPos == 3
\* most magnetic records in the file
MaxMag == 2
\* most records in the file, of both kinds together
MaxRecords == 4
\* timestamps are 0..MaxT
MaxT == 2
\* ground-truth x is k units for k in 0..MaxX, y is k units for k in 0..MaxY
MaxX == 1
MaxY == 1
\* cell widths are -NegCell..MaxCell, cell heights 0..MaxCellH
NegCell == 1
MaxCell == 2
MaxCellH == 1
\* most method calls on the instance after its construction; the calls a
\* caller may make are unbounded, the model follows them this far
MaxCalls == 2

(***************************************************************************)
(* Float arithmetic, as exact rationals.                                   *)
(***************************************************************************)
Abs(a) == IF a < 0 THEN -a ELSE a

RECURSIVE Gcd(_, _)
Gcd(a, b) == IF b = 0 THEN a ELSE Gcd(b, a % b)

\* inf / nan
NonFinite == [n |-> 0, d |-> 0]

IsFinite(r) == r.d # 0

\* n/d in lowest terms; anything over zero is non-finite
Rat(n, d) ==
    IF d = 0 THEN NonFinite
    ELSE LET s == IF d < 0 THEN -1 ELSE 1
             g == Gcd(Abs(n), Abs(d))
         IN  [n |-> (s * n) \div g, d |-> (s * d) \div g]

FromInt(k) == [n |-> k, d |-> 1]

Zero == FromInt(0)

RAdd(a, b) ==
    IF IsFinite(a) /\ IsFinite(b) THEN Rat(a.n * b.d + b.n * a.d, a.d * b.d)
    ELSE NonFinite

RSub(a, b) ==
    IF IsFinite(a) /\ IsFinite(b) THEN Rat(a.n * b.d - b.n * a.d, a.d * b.d)
    ELSE NonFinite

RMul(a, b) ==
    IF IsFinite(a) /\ IsFinite(b) THEN Rat(a.n * b.n, a.d * b.d)
    ELSE NonFinite

\* a / b on floats that do not raise: x/0 is inf or nan
RDiv(a, b) ==
    IF IsFinite(a) /\ IsFinite(b) /\ b.n # 0 THEN Rat(a.n * b.d, a.d * b.n)
    ELSE NonFinite

\* a < b and a <= b on finite values
RLess(a, b) == a.n * b.d < b.n * a.d

RLeq(a, b) == a.n * b.d <= b.n * a.d

\* Python's a // b on integers, b # 0: floor of the quotient, for either sign of b
FloorDiv(a, b) == IF b > 0 THEN a \div b ELSE (-a) \div (-b)

\* int(np.floor(r)) and int(np.ceil(r)) of a finite r
RFloor(r) == r.n \div r.d

RCeil(r) == -((-r.n) \div r.d)

\* the exact integer square root of a perfect square
Sqrt(k) == CHOOSE s \in 0..k : s * s = k

(***************************************************************************)
(* The recording file.                                                     *)
(***************************************************************************)
\* the paths a caller may pass: the recording, a missing file, a directory
RecordingPath == "recordings_pb/10732.pb"

Paths == {RecordingPath, "recordings_pb/missing.pb", "recordings_pb"}

\* os.path.isfile
IsFile(p) == p = RecordingPath

\* the unit of the ground-truth coordinates in the file: 2.5 m, so that
\* coordinates are not whole numbers and extents are not multiples of a cell
CoordUnit == Rat(5, 2)

\* one position record of the file
PositionRecords ==
    [t : 0..MaxT,
     x : {RMul(FromInt(k), CoordUnit) : k \in 0..MaxX},
     y : {RMul(FromInt(k), CoordUnit) : k \in 0..MaxY}]

\* the raw field readings the file may hold; each has an integer norm
FieldVectors == {<<3, 4, 0>>, <<1, 2, 2>>}

\* one magnetic record of the file
MagneticRecords == [t : 0..MaxT, m : FieldVectors]

SeqsUpTo(S, n) == UNION {[1..k -> S] : k \in 0..n}

\* the deserialized message: measurements.positions, measurements.magnetics
Recordings ==
    {f \in [positions : SeqsUpTo(PositionRecords, MaxPos),
            magnetics : SeqsUpTo(MagneticRecords, MaxMag)] :
        Len(f.positions) + Len(f.magnetics) <= MaxRecords}

VARIABLES
    file,        \* the content of the recording file at RecordingPath
    inst,        \* "none": not constructed; "live": __init__ returned; "failed": __init__ raised
    pb_file,     \* self.pb_file ("" while unset)
    loaded,      \* whether self.positions and self.magnetics exist
    positions,   \* self.positions: rows [t, x, y], in file order
    magnetics,   \* self.magnetics: rows [idx, t, m, x, y, seg], idx the row's index label
    rect_grid,   \* self.rect_grid: rect_grid[r][c], r and c counted from 1 (<<>> while unset)
    cell_size,   \* self.cell_size (<<>> while unset)
    cnt,         \* set_rect_grid's local cnt as the loop over the magnetics left it
    ncalls,      \* how many methods were called on the instance since __init__ returned
    last,        \* the last call: [op, outcome, arg, names]: outcome is "ok" or the
                 \* exception raised, arg the path passed, names the path its message names
    calls        \* the methods __init__ called, in order

vars == <<file, inst, pb_file, loaded, positions, magnetics, rect_grid,
          cell_size, cnt, ncalls, last, calls>>

(***************************************************************************)
(* read_recording                                                          *)
(***************************************************************************)
\* positions['t'].max(); only used on a non-empty table
MaxTime(pos) == CHOOSE m \in {pos[i].t : i \in 1..Len(pos)} :
                    \A i \in 1..Len(pos) : pos[i].t <= m

\* the mask, had the comparison been ">=": the rows at or after the latest
\* ground-truth row are the ones kept
KeepRowFlipped(t, pos) == Len(pos) > 0 /\ t >= MaxTime(pos)

\* the mask of lines 124-126: on an empty positions table max() is nan and
\* every comparison with it is False
KeepRow(t, pos) == Len(pos) > 0 /\ t <= MaxTime(pos)

\* lines 104-119: row j of the magnetics table, labelled j (from 0), its
\* position columns set to 0.0; seg records which ground-truth interval wrote
\* x and y (0: none yet)
NewMagneticRow(j, rec) ==
    [idx |-> j - 1, t |-> rec.t, m |-> rec.m, x |-> Zero, y |-> Zero, seg |-> 0]

\* rows of s satisfying the mask, in order, labels kept
RECURSIVE FilterRows(_, _)
FilterRows(s, pos) ==
    IF s = <<>> THEN <<>>
    ELSE IF KeepRow(Head(s).t, pos)
         THEN <<Head(s)>> \o FilterRows(Tail(s), pos)
         ELSE FilterRows(Tail(s), pos)

\* lines 86-102
ReadPositions(f) == f.positions

\* lines 89-126
ReadMagnetics(f) ==
    FilterRows([j \in 1..Len(f.magnetics) |-> NewMagneticRow(j, f.magnetics[j])],
               f.positions)

(***************************************************************************)
(* magnetics_pos_calc                                                      *)
(***************************************************************************)
\* what a division by zero does at lines 152-158: with Python floats in an
\* object column it raises ZeroDivisionError, with numpy float64 it gives
\* inf or nan and goes on.  Which one depends on the dtype pandas infers for
\* the table, so both are outcomes.  The outcome is chosen at each call,
\* which allows more behaviours than one installation has.
ZeroDivOutcomes == {"raise", "nonfinite"}

\* self.magnetics.loc[label] exists
HasLabel(mags, label) == \E k \in 1..Len(mags) : mags[k].idx = label

\* the place of the row labelled label
RowOf(mags, label) == CHOOSE k \in 1..Len(mags) : mags[k].idx = label

\* lines 152-158: (v1 - v0) / (t1 - t0)
Speed(v0, v1, t0, t1) == RDiv(RSub(v1, v0), FromInt(t1 - t0))

\* the assignment, had it held a sample taken before t0 at v0
InterpolateClamped(tj, t0, speed, v0) ==
    IF tj < t0 THEN v0 ELSE RAdd(RMul(FromInt(tj - t0), speed), v0)

\* lines 166, 168: (tj - t0) * speed + v0
Interpolate(tj, t0, speed, v0) == RAdd(RMul(FromInt(tj - t0), speed), v0)

\* the test of the inner loop, had it been "<="
WhileCondLeq(tj, tnext) == tj <= tnext

\* line 165: the test of the inner loop
WhileCond(tj, tnext) == tj < tnext

\* lines 149-180, from ground-truth pair (i, i+1) on, with the cursor at
\* label row and its timestamp tj.  Result: [outcome, magnetics].
RECURSIVE Scan(_, _, _, _, _, _)
Scan(pos, mags, i, row, tj, zd) ==
    IF i > Len(pos) - 1 THEN [outcome |-> "ok", magnetics |-> mags]
    ELSE IF pos[i + 1].t = pos[i].t /\ zd = "raise"
    THEN [outcome |-> "ZeroDivisionError", magnetics |-> mags]
    ELSE IF ~WhileCond(tj, pos[i + 1].t) THEN Scan(pos, mags, i + 1, row, tj, zd)
    ELSE LET speed_x == Speed(pos[i].x, pos[i + 1].x, pos[i].t, pos[i + 1].t)
             speed_y == Speed(pos[i].y, pos[i + 1].y, pos[i].t, pos[i + 1].t)
             k == RowOf(mags, row)
             written == [mags EXCEPT
                            ![k].x = Interpolate(tj, pos[i].t, speed_x, pos[i].x),
                            ![k].y = Interpolate(tj, pos[i].t, speed_y, pos[i].y),
                            ![k].seg = i]
         IN  IF row + 1 >= Len(mags)
             THEN [outcome |-> "ok", magnetics |-> written]
             ELSE IF ~HasLabel(mags, row + 1)
             THEN [outcome |-> "KeyError", magnetics |-> written]
             ELSE Scan(pos, written, i, row + 1, mags[RowOf(mags, row + 1)].t, zd)

\* lines 146-180
MagneticsPosCalc(pos, mags, zd) ==
    IF ~HasLabel(mags, 0) THEN [outcome |-> "KeyError", magnetics |-> mags]
    ELSE Scan(pos, mags, 1, 0, mags[RowOf(mags, 0)].t, zd)

(***************************************************************************)
(* The instance.                                                           *)
(***************************************************************************)
NoCall == [op |-> "none", outcome |-> "none", arg |-> "", names |-> ""]

Init ==
    /\ file \in Recordings
    /\ inst = "none"
    /\ pb_file = ""
    /\ loaded = FALSE
    /\ positions = <<>>
    /\ magnetics = <<>>
    /\ rect_grid = <<>>
    /\ cell_size = <<>>
    /\ cnt = <<>>
    /\ ncalls = 0
    /\ last = NoCall
    /\ calls = <<>>

\* __init__ without the check of line 53: open() in read_recording raises
InitCallUnchecked(path, f, zd) ==
    IF ~IsFile(path)
    THEN [outcome |-> "FileNotFoundError", names |-> path, pb_file |-> path,
          loaded |-> FALSE, positions |-> <<>>, magnetics |-> <<>>,
          calls |-> <<"read_recording">>]
    ELSE LET pos == ReadPositions(f)
             calc == MagneticsPosCalc(pos, ReadMagnetics(f), zd)
         IN  [outcome |-> calc.outcome, names |-> "", pb_file |-> path, loaded |-> TRUE,
              positions |-> pos, magnetics |-> calc.magnetics,
              calls |-> <<"read_recording", "magnetics_pos_calc">>]

\* lines 42-60: IPSRecording(path).  What __init__ does, as the values of the
\* attributes it leaves: [outcome, names, pb_file, loaded, positions, magnetics, calls].
InitCall(path, f, zd) ==
    IF ~IsFile(path)
    THEN \* line 54: the message names pb_file
         [outcome |-> "FileNotFoundError", names |-> path, pb_file |-> "",
          loaded |-> FALSE, positions |-> <<>>, magnetics |-> <<>>, calls |-> <<>>]
    ELSE LET pos == ReadPositions(f)
             calc == MagneticsPosCalc(pos, ReadMagnetics(f), zd)
         IN  [outcome |-> calc.outcome, names |-> "", pb_file |-> path, loaded |-> TRUE,
              positions |-> pos, magnetics |-> calc.magnetics,
              calls |-> <<"read_recording", "magnetics_pos_calc">>]

Construct ==
    /\ inst = "none"
    /\ \E path \in Paths, zd \in ZeroDivOutcomes :
          \E r \in {InitCall(path, file, zd)} :
              /\ inst' = IF r.outcome = "ok" THEN "live" ELSE "failed"
              /\ pb_file' = r.pb_file
              /\ loaded' = r.loaded
              /\ positions' = r.positions
              /\ magnetics' = r.magnetics
              /\ calls' = r.calls
              /\ last' = [op |-> "__init__", outcome |-> r.outcome, arg |-> path,
                          names |-> r.names]
    /\ UNCHANGED <<file, rect_grid, cell_size, cnt, ncalls>>

\* lines 62-129, called on the constructed instance
ReadRecording ==
    /\ inst = "live"
    /\ ncalls < MaxCalls
    /\ ncalls' = ncalls + 1
    /\ positions' = ReadPositions(file)
    /\ magnetics' = ReadMagnetics(file)
    /\ loaded' = TRUE
    /\ last' = [op |-> "read_recording", outcome |-> "ok", arg |-> "", names |-> ""]
    /\ UNCHANGED <<file, inst, pb_file, rect_grid, cell_size, cnt, calls>>

\* lines 131-180, called on the constructed instance
MagneticsPosCalcCall ==
    /\ inst = "live"
    /\ ncalls < MaxCalls
    /\ ncalls' = ncalls + 1
    /\ \E zd \in ZeroDivOutcomes :
          \E r \in {MagneticsPosCalc(positions, magnetics, zd)} :
              /\ magnetics' = r.magnetics
              /\ last' = [op |-> "magnetics_pos_calc", outcome |-> r.outcome,
                          arg |-> "", names |-> ""]
    /\ UNCHANGED <<file, inst, pb_file, loaded, positions, rect_grid, cell_size,
                   cnt, calls>>

(***************************************************************************)
(* set_rect_grid                                                           *)
(***************************************************************************)
\* the cell sizes a caller passes
CellWidths == (-NegCell)..MaxCell

CellHeights == 0..MaxCellH

\* positions.x.min() and positions.x.max() of a column of finite values
ColMin(col) == CHOOSE v \in {col[i] : i \in 1..Len(col)} :
                   \A i \in 1..Len(col) : RLeq(v, col[i])

ColMax(col) == CHOOSE v \in {col[i] : i \in 1..Len(col)} :
                   \A i \in 1..Len(col) : RLeq(col[i], v)

XCol(pos) == [i \in 1..Len(pos) |-> pos[i].x]

YCol(pos) == [i \in 1..Len(pos) |-> pos[i].y]

\* len(range(a, b, step)), step # 0
RangeLen(a, b, step) ==
    IF step > 0
    THEN IF b > a THEN (b - a + step - 1) \div step ELSE 0
    ELSE IF a > b THEN (a - b + (-step) - 1) \div (-step) ELSE 0

\* the length of one axis, had line 217 not added 1
AxisCellsNoExtra(col, step) ==
    RangeLen(RFloor(ColMin(col)), RCeil(ColMax(col)), step)

\* lines 207-210, 217: the length of one axis of the grid, len(axis) + 1
AxisCells(col, step) ==
    RangeLen(RFloor(ColMin(col)), RCeil(ColMax(col)), step) + 1

\* lines 228, 229: -int(np.ceil(v - v_min) // step), v finite
CellIndex(v, vmin, step) == -FloorDiv(RCeil(RSub(v, vmin)), step)

\* numpy's a[i] on an axis of n cells: index i is in range iff -n <= i < n
InRange(i, n) == -n <= i /\ i < n

\* the cell (counted from 1) that index i of an axis of n cells addresses
Place(i, n) == IF i < 0 THEN i + n + 1 ELSE i + 1

\* lines 231-234: sqrt(mx^2 + my^2 + mz^2)
Magnitude(m) == FromInt(Sqrt(m[1] * m[1] + m[2] * m[2] + m[3] * m[3]))

\* line 217: np.zeros((n, m)), the sums
Zeros(n, m) == [r \in 1..n |-> [c \in 1..m |-> Zero]]

\* line 219: np.zeros((n, m)), the counts
ZeroCounts(n, m) == [r \in 1..n |-> [c \in 1..m |-> 0]]

\* lines 227-237, from row k of the magnetics on.
\* Result: [outcome, grid, cnt], the arrays as the loop left them.
RECURSIVE Accumulate(_, _, _, _, _, _, _)
Accumulate(mags, k, xmin, ymin, cell, grid, count) ==
    IF k > Len(mags) THEN [outcome |-> "ok", grid |-> grid, cnt |-> count]
    ELSE IF ~IsFinite(mags[k].x) \/ ~IsFinite(mags[k].y)
    THEN \* int() of nan
         [outcome |-> "ValueError", grid |-> grid, cnt |-> count]
    ELSE LET row == CellIndex(mags[k].x, xmin, cell[1])
             col == CellIndex(mags[k].y, ymin, cell[2])
             n == Len(grid)
             m == IF n = 0 THEN 0 ELSE Len(grid[1])
         IN  IF ~InRange(row, n) \/ ~InRange(col, m)
             THEN [outcome |-> "IndexError", grid |-> grid, cnt |-> count]
             ELSE LET r == Place(row, n)
                      c == Place(col, m)
                  IN  Accumulate(mags, k + 1, xmin, ymin, cell,
                          [grid EXCEPT ![r][c] = RAdd(@, Magnitude(mags[k].m))],
                          [count EXCEPT ![r][c] = @ + 1])

\* the average, had an empty cell been given the count 1 (as the comment of
\* line 239 says) instead of nan
AverageZero(sum, count) == IF count = 0 THEN Zero ELSE RDiv(sum, FromInt(count))

\* lines 240-241: cnt[cnt == 0] = nan; rect_grid / cnt.  (np.NaN is taken
\* to exist, as in the numpy 1.x the code was written for.)
Average(sum, count) == IF count = 0 THEN NonFinite ELSE RDiv(sum, FromInt(count))

Averages(grid, count) ==
    [r \in 1..Len(grid) |-> [c \in 1..Len(grid[r]) |-> Average(grid[r][c], count[r][c])]]

\* the shape of the grid set_rect_grid allocates, lines 207-219
GridShape(pos, cell) == <<AxisCells(XCol(pos), cell[1]), AxisCells(YCol(pos), cell[2])>>

\* lines 203-251: what the call leaves: [outcome, rect_grid, cnt].
\* rect_grid is the attribute's value when the call ends: the old one if the
\* call raised before line 217, the sums so far if it raised in the loop.
SetRectGrid(pos, mags, cell, old_grid, old_cnt) ==
    IF pos = <<>>
    THEN \* int() of the nan that min() of an empty column gives
         [outcome |-> "ValueError", rect_grid |-> old_grid, cnt |-> old_cnt]
    ELSE IF cell[1] = 0 \/ cell[2] = 0
    THEN \* range() arg 3 must not be zero
         [outcome |-> "ValueError", rect_grid |-> old_grid, cnt |-> old_cnt]
    ELSE LET shape == GridShape(pos, cell)
             acc == Accumulate(mags, 1, ColMin(XCol(pos)), ColMin(YCol(pos)), cell,
                               Zeros(shape[1], shape[2]), ZeroCounts(shape[1], shape[2]))
         IN  IF acc.outcome = "ok"
             THEN [outcome |-> "ok",
                   rect_grid |-> Averages(acc.grid, acc.cnt),
                   cnt |-> acc.cnt]
             ELSE [outcome |-> acc.outcome, rect_grid |-> acc.grid, cnt |-> acc.cnt]

SetRectGridCall ==
    /\ inst = "live"
    /\ ncalls < MaxCalls
    /\ ncalls' = ncalls + 1
    /\ \E w \in CellWidths, h \in CellHeights :
          \E r \in {SetRectGrid(positions, magnetics, <<w, h>>, rect_grid, cnt)} :
              /\ cell_size' = <<w, h>>
              /\ rect_grid' = r.rect_grid
              /\ cnt' = r.cnt
              /\ last' = [op |-> "set_rect_grid", outcome |-> r.outcome,
                          arg |-> "", names |-> ""]
    /\ UNCHANGED <<file, inst, pb_file, loaded, positions, magnetics, calls>>

Next == Construct \/ ReadRecording \/ MagneticsPosCalcCall \/ SetRectGridCall

Spec == Init /\ [][Next]_vars

(***************************************************************************)
(* Properties.                                                             *)
(***************************************************************************)
\* timestamps of a table, in row order
Ascending(rows) == \A i \in 1..(Len(rows) - 1) : rows[i].t <= rows[i + 1].t

StrictlyAscending(rows) == \A i \in 1..(Len(rows) - 1) : rows[i].t < rows[i + 1].t

\* the last call was a run of the interpolation that returned
Interpolated ==
    /\ last.op \in {"__init__", "magnetics_pos_calc"}
    /\ last.outcome = "ok"

\* v[i] + (tm - t[i]) * (v[i+1] - v[i]) / (t[i+1] - t[i])
Linear(tm, t0, t1, v0, v1) ==
    RAdd(v0, RDiv(RMul(FromInt(tm - t0), RSub(v1, v0)), FromInt(t1 - t0)))

\* the last call was a set_rect_grid that returned a grid
GridReturned == last.op = "set_rect_grid" /\ last.outcome = "ok"

PositiveCell == cell_size[1] > 0 /\ cell_size[2] > 0

\* a recording as the interpolation expects it, fully interpolated: two or
\* more ground-truth rows with strictly ascending timestamps, ascending
\* magnetic timestamps, and every magnetic row written by the interpolation
Estimated ==
    /\ Len(positions) >= 2
    /\ StrictlyAscending(positions)
    /\ Ascending(magnetics)
    /\ \A k \in 1..Len(magnetics) : magnetics[k].seg # 0

\* C1: with strictly ascending ground-truth timestamps (two rows or more) and
\* ascending magnetic timestamps, after magnetics_pos_calc every magnetic row
\* with t[i] <= tm < t[i+1] holds the linear interpolation between rows i and
\* i+1, and was written while the loop was at that pair: a row at t[i+1] is
\* written from pair (i+1, i+2), not from (i, i+1).
C1_Interpolation ==
    (Interpolated /\ Len(positions) >= 2 /\ StrictlyAscending(positions)
        /\ Ascending(magnetics))
    => \A k \in 1..Len(magnetics), i \in 1..(Len(positions) - 1) :
          (positions[i].t <= magnetics[k].t /\ magnetics[k].t < positions[i + 1].t)
          => /\ magnetics[k].x = Linear(magnetics[k].t, positions[i].t, positions[i + 1].t,
                                        positions[i].x, positions[i + 1].x)
             /\ magnetics[k].y = Linear(magnetics[k].t, positions[i].t, positions[i + 1].t,
                                        positions[i].y, positions[i + 1].y)
             /\ magnetics[k].seg = i

\* a sample at the middle timestamp of three ground-truth rows, written from
\* the second pair, at a position that is not the placeholder
C1_Witness ==
    /\ Interpolated
    /\ Len(positions) = 3 /\ StrictlyAscending(positions) /\ Ascending(magnetics)
    /\ \E k \in 1..Len(magnetics) :
          /\ magnetics[k].t = positions[2].t
          /\ magnetics[k].seg = 2
          /\ magnetics[k].x # Zero
          /\ magnetics[k].y # Zero

\* C2: after construction on a recording with ascending timestamps (two or
\* more ground-truth rows, strictly ascending), every magnetic row with
\* min(positions.t) <= t <= max(positions.t) has had its x and y written by
\* the interpolation.
C2_AllWritten ==
    (last.op = "__init__" /\ last.outcome = "ok" /\ Len(positions) >= 2
        /\ StrictlyAscending(positions) /\ Ascending(magnetics))
    => \A k \in 1..Len(magnetics) :
          ((\E i \in 1..Len(positions) : positions[i].t <= magnetics[k].t)
              /\ (\E i \in 1..Len(positions) : magnetics[k].t <= positions[i].t))
          => magnetics[k].seg # 0

\* C3: once the tables exist, every magnetic row has t <= max(positions.t).
C3_Trimmed ==
    loaded => \A k \in 1..Len(magnetics) :
                  \E i \in 1..Len(positions) : magnetics[k].t <= positions[i].t

\* two calls after construction, the second a set_rect_grid, on a recording
\* that has a magnetic record later than every ground-truth record and one
\* that is not
C3_Witness ==
    /\ ncalls = 2 /\ last.op = "set_rect_grid"
    /\ Len(magnetics) > 0
    /\ \E j \in 1..Len(file.magnetics) :
          \A i \in 1..Len(file.positions) : file.magnetics[j].t > file.positions[i].t

\* ceil(max) - floor(min) of a column
Extent(col) == RCeil(ColMax(col)) - RFloor(ColMin(col))

\* C4: for a positive cell size [w, h], the grid set_rect_grid returns (here
\* on an interpolated recording) has shape
\* ((ceil(max x) - floor(min x)) // w + 1, (ceil(max y) - floor(min y)) // h + 1).
C4_Shape ==
    (GridReturned /\ PositiveCell /\ Estimated)
    => /\ Len(rect_grid) = (Extent(XCol(positions)) \div cell_size[1]) + 1
       /\ \A r \in 1..Len(rect_grid) :
             Len(rect_grid[r]) = (Extent(YCol(positions)) \div cell_size[2]) + 1

\* the magnetic rows whose indices address cell (r, c) of an n by m grid
Addressing(r, c, n, m) ==
    {k \in 1..Len(magnetics) :
        /\ IsFinite(magnetics[k].x) /\ IsFinite(magnetics[k].y)
        /\ (CellIndex(magnetics[k].x, ColMin(XCol(positions)), cell_size[1]) % n) + 1 = r
        /\ (CellIndex(magnetics[k].y, ColMin(YCol(positions)), cell_size[2]) % m) + 1 = c}

RECURSIVE MagnitudeSum(_)
MagnitudeSum(S) ==
    IF S = {} THEN 0
    ELSE LET k == CHOOSE j \in S : TRUE
             v == magnetics[k].m
         IN  Sqrt(v[1] * v[1] + v[2] * v[2] + v[3] * v[3]) + MagnitudeSum(S \ {k})

C6_Rejected ==
    (last.op = "set_rect_grid" /\ ~PositiveCell /\ Estimated) => last.outcome # "ok"

\* a magnetic row whose position is outside the extents the grid is allocated from
OutsideExtents(row) ==
    \/ RLess(row.x, FromInt(RFloor(ColMin(XCol(positions)))))
    \/ RLess(FromInt(RCeil(ColMax(XCol(positions)))), row.x)
    \/ RLess(row.y, FromInt(RFloor(ColMin(YCol(positions)))))
    \/ RLess(FromInt(RCeil(ColMax(YCol(positions)))), row.y)

\* C7: when some magnetic row's estimated (x, y) lies outside the extents the
\* grid is allocated from, set_rect_grid (here with a positive cell size, on
\* an interpolated recording) ends in IndexError.
C7_OutOfRange ==
    (last.op = "set_rect_grid" /\ PositiveCell /\ Estimated
        /\ (\A k \in 1..Len(magnetics) :
               IsFinite(magnetics[k].x) /\ IsFinite(magnetics[k].y))
        /\ (\E k \in 1..Len(magnetics) : OutsideExtents(magnetics[k])))
    => last.outcome = "IndexError"

\* C8: a construction whose path is not an existing regular file raises
\* FileNotFoundError naming the path, having called nothing and created no
\* table; a construction that returns has called read_recording and then
\* magnetics_pos_calc.
C8_Construct ==
    /\ (last.op = "__init__" /\ last.arg # RecordingPath)
       => /\ last.outcome = "FileNotFoundError"
          /\ last.names = last.arg
          /\ calls = <<>>
          /\ ~loaded /\ positions = <<>> /\ magnetics = <<>>
          /\ inst = "failed"
    /\ inst = "live"
       => /\ calls = <<"read_recording", "magnetics_pos_calc">>
          /\ loaded

\* a construction on a directory's path has failed
C8_Witness ==
    /\ last.op = "__init__"
    /\ last.arg = "recordings_pb"
    /\ last.outcome = "FileNotFoundError"

\* C9: with ascending timestamps, after magnetics_pos_calc a magnetic row
\* earlier than the first ground-truth row holds the extrapolation of the first
\* pair, x[0] + (tm - t[0]) * (x[1] - x[0]) / (t[1] - t[0]), and y alike.
C9_Extrapolation ==
    (Interpolated /\ Len(positions) >= 2 /\ Ascending(positions)
        /\ positions[1].t < positions[2].t /\ Ascending(magnetics))
    => \A k \in 1..Len(magnetics) :
          magnetics[k].t < positions[1].t
          => /\ magnetics[k].x = Linear(magnetics[k].t, positions[1].t, positions[2].t,
                                        positions[1].x, positions[2].x)
             /\ magnetics[k].y = Linear(magnetics[k].t, positions[1].t, positions[2].t,
                                        positions[1].y, positions[2].y)
             /\ magnetics[k].seg = 1

\* a sample earlier than the first ground-truth row, placed outside the
\* segment between the first two rows
C9_Witness ==
    /\ Interpolated
    /\ Len(positions) >= 2 /\ Ascending(positions) /\ Ascending(magnetics)
    /\ positions[1].t < positions[2].t
    /\ \E k \in 1..Len(magnetics) :
          /\ magnetics[k].t < positions[1].t
          /\ magnetics[k].seg = 1
          /\ RLess(magnetics[k].x, positions[1].x)
          /\ RLess(positions[2].y, positions[1].y) /\ RLess(positions[1].y, magnetics[k].y)

\* every magnetic row's (x, y) is inside the bounding box of the positions
InsideBox ==
    \A k \in 1..Len(magnetics) :
        /\ IsFinite(magnetics[k].x) /\ IsFinite(magnetics[k].y)
        /\ RLeq(ColMin(XCol(positions)), magnetics[k].x)
        /\ RLeq(magnetics[k].x, ColMax(XCol(positions)))
        /\ RLeq(ColMin(YCol(positions)), magnetics[k].y)
        /\ RLeq(magnetics[k].y, ColMax(YCol(positions)))

RECURSIVE SeqSum(_)
SeqSum(q) == IF q = <<>> THEN 0 ELSE Head(q) + SeqSum(Tail(q))

\* the sum of all cells of an array of numbers
Total(a) == SeqSum([r \in 1..Len(a) |-> SeqSum(a[r])])

\* C10: for a positive cell size, when every magnetic row's (x, y) is inside
\* the bounding box of the positions, every index set_rect_grid computes is in
\* range of the grid it allocated, the call returns, and the counts add up to
\* the number of magnetic rows.
C10_InRange ==
    (last.op = "set_rect_grid" /\ PositiveCell /\ InsideBox)
    => /\ last.outcome = "ok"
       /\ \A k \in 1..Len(magnetics) :
             LET row == CellIndex(magnetics[k].x, ColMin(XCol(positions)), cell_size[1])
                 col == CellIndex(magnetics[k].y, ColMin(YCol(positions)), cell_size[2])
             IN  /\ -Len(rect_grid) <= row /\ row < Len(rect_grid)
                 /\ -Len(rect_grid[1]) <= col /\ col < Len(rect_grid[1])
       /\ Total(cnt) = Len(magnetics)

\* a returned grid of two samples inside the box, one addressed by the negative
\* row index -3 and one by a negative column index
C10_Witness ==
    /\ GridReturned /\ PositiveCell /\ InsideBox
    /\ Len(magnetics) = 2
    /\ \E k \in 1..Len(magnetics) :
          CellIndex(magnetics[k].x, ColMin(XCol(positions)), cell_size[1]) = -3
    /\ \E k \in 1..Len(magnetics) :
          CellIndex(magnetics[k].y, ColMin(YCol(positions)), cell_size[2]) < 0

====
